---- MODULE Spec2Model ----
(***************************************************************************)
(* Range allocator of src/rangeallocator.cpp: a singly linked list of free *)
(* spans over [_base, _base + _length), span records taken from            *)
(* span_manager_pool, four allocation policies and a coalescing free.      *)
(* vaddr_t and size_t are unsigned machine words: every sum and difference *)
(* the code computes is taken modulo WordSize.                             *)
(***************************************************************************)
EXTENDS Integers, Sequences, FiniteSets, TLC

\* Number of values of a machine word (uintptr_t / size_t), scaled down.
WordSize == 16

\* Number of allocate_range / free_range calls followed on one allocator.
MaxCalls == 4

\* Number of calls followed when each call is recorded with its arguments.
MaxTracedCalls == 2

Word == 0 .. WordSize - 1

\* allocation_flags
ALLOCATE_ANY == 0
ALLOCATE_EXACT == 1
ALLOCATE_ABOVE == 2
ALLOCATE_BELOW == 3
allocation_flags == {ALLOCATE_ANY, ALLOCATE_EXACT, ALLOCATE_ABOVE, ALLOCATE_BELOW}

\* the null span pointer, and the address of the sentinel _free_mem_root
NULL == 0
ROOT == -1

\* (vaddr_t)-1
invalid == WordSize - 1

\* unsigned word arithmetic
add(a, b) == (a + b) % WordSize
sub(a, b) == (a + WordSize - b) % WordSize

VARIABLES
    ra,                 \* the handle: "null", "instance", "destroyed", or "crashed"
                        \* (the process died)
    _base,              \* range_allocator::_base
    _length,            \* range_allocator::_length (effective length)
    _granularity,       \* range_allocator::_granularity
    _pool,              \* span_manager_pool::_pool: index -> [next, base, length]
    _available_spans,   \* span_manager_pool::_available_spans
    _free_mem_root,     \* _free_mem_root.next
    calls,              \* number of allocate_range / free_range calls made
    last,               \* the last call, when calls are recorded:
                        \* [op, length, flags, addr, ret]; of a create, flags
                        \* holds the granularity and addr the base
    before,             \* the free list before the last call, when calls are recorded
    allocated,          \* ghost: address -> number of blocks handed out, and not yet
                        \* released, that cover it
    valid_frees         \* ghost: every free_range so far released allocated addresses
                        \* only; the blocks are followed as long as this holds

vars == <<ra, _base, _length, _granularity, _pool, _available_spans,
          _free_mem_root, calls, last, before, allocated, valid_frees>>

\* The control structures as one value: the record pool, the list head, the
\* chain of available records, and whether a null span pointer was written through.
Heap == [pool |-> _pool, root |-> _free_mem_root, avail |-> _available_spans, fault |-> FALSE]

----------------------------------------------------------------------------
\* span_manager_pool

\* span_manager_pool::span_manager_pool, for max_instances >= 1
span_manager_pool(max_instances) ==
    [i \in 1 .. max_instances |->
        [next |-> IF i < max_instances THEN i + 1 ELSE NULL, base |-> 0, length |-> 0]]

\* span_manager_pool::get: <<heap, s>>
get(h) ==
    LET s == h.avail
    IN  IF s # NULL THEN <<[h EXCEPT !.avail = h.pool[s].next], s>>
        ELSE <<h, NULL>>

\* span_manager_pool::release
release(h, s) ==
    [h EXCEPT !.pool[s].next = h.avail, !.avail = s]

----------------------------------------------------------------------------
\* range_allocator

\* write of p->next, p a span or the sentinel
set_next(h, p, q) ==
    IF p = ROOT THEN [h EXCEPT !.root = q] ELSE [h EXCEPT !.pool[p].next = q]

add_span(h) == get(h)

\* remove_span that unlinks the span and keeps its record out of the store
remove_span_without_release(h, prev, curr) ==
    set_next(h, prev, h.pool[curr].next)

remove_span(h, prev, curr) ==
    release(set_next(h, prev, h.pool[curr].next), curr)

\* the rounding of a length up, and of a base down, to the granularity
align_up(length) == (add(length, _granularity - 1) \div _granularity) * _granularity
align_down(base) == (base \div _granularity) * _granularity

\* check_span with an ABOVE case that takes only a span lying wholly at or
\* above the hint
check_span_above_whole_span(s, length, flags, hint) ==
    CASE flags = ALLOCATE_ANY -> s.length >= length
      [] flags = ALLOCATE_EXACT ->
            (s.base <= hint) /\ (add(hint, length) <= add(s.base, s.length))
      [] flags = ALLOCATE_ABOVE -> s.base >= hint /\ s.length >= length
      [] flags = ALLOCATE_BELOW ->
            (add(s.base, length) <= hint) /\ (s.length >= length)
      [] OTHER -> FALSE

check_span(s, length, flags, hint) ==
    CASE flags = ALLOCATE_ANY -> s.length >= length
      [] flags = ALLOCATE_EXACT ->
            (s.base <= hint) /\ (add(hint, length) <= add(s.base, s.length))
      [] flags = ALLOCATE_ABOVE ->
            IF s.base >= hint THEN s.length >= length
            ELSE IF add(s.base, s.length) >= hint
                 THEN add(s.base, s.length) >= add(hint, length)
                 ELSE FALSE
      [] flags = ALLOCATE_BELOW ->
            (add(s.base, length) <= hint) /\ (s.length >= length)
      [] OTHER -> FALSE

trunc_span_low(h, prev, curr, length) ==
    IF length = h.pool[curr].length THEN remove_span(h, prev, curr)
    ELSE [h EXCEPT !.pool[curr].base = add(@, length),
                   !.pool[curr].length = sub(@, length)]

trunc_span_high(h, prev, curr, length) ==
    IF length = h.pool[curr].length THEN remove_span(h, prev, curr)
    ELSE [h EXCEPT !.pool[curr].length = sub(@, length)]

trunc_span_middle(h, prev, curr, base, length) ==
    IF length = h.pool[curr].length THEN remove_span(h, prev, curr)
    ELSE LET g == add_span(h)
             s == g[2]
             c == h.pool[curr]
             sbase == add(base, length)
         IN  IF s = NULL THEN [h EXCEPT !.fault = TRUE]
             ELSE [g[1] EXCEPT
                     !.pool[s] = [next |-> c.next, base |-> sbase,
                                  length |-> sub(add(c.base, c.length), sbase)],
                     !.pool[curr].length = sub(base, c.base),
                     !.pool[curr].next = s]

\* split_span: [h, ret]
split_span(h, prev, curr, length, flags, hint) ==
    LET c == h.pool[curr]
    IN  CASE flags = ALLOCATE_ANY ->
                [h |-> trunc_span_low(h, prev, curr, length), ret |-> c.base]
          [] flags = ALLOCATE_EXACT ->
                [h |-> IF c.base = hint THEN trunc_span_low(h, prev, curr, length)
                       ELSE IF add(hint, length) = add(c.base, c.length)
                            THEN trunc_span_high(h, prev, curr, length)
                            ELSE trunc_span_middle(h, prev, curr, hint, length),
                 ret |-> hint]
          [] flags = ALLOCATE_ABOVE ->
                [h |-> trunc_span_high(h, prev, curr, length),
                 ret |-> sub(add(c.base, c.length), length)]
          [] flags = ALLOCATE_BELOW ->
                [h |-> trunc_span_low(h, prev, curr, length), ret |-> c.base]
          [] OTHER -> [h |-> h, ret |-> invalid]

\* the scan of allocate: <<previous, current>>, current the first span that matches
RECURSIVE find_span(_, _, _, _, _, _)
find_span(h, previous, current, length, flags, hint) ==
    IF current = NULL THEN <<previous, NULL>>
    ELSE IF check_span(h.pool[current], length, flags, hint) THEN <<previous, current>>
    ELSE find_span(h, current, h.pool[current].next, length, flags, hint)

\* range_allocator::allocate: [h, ret]
allocate(h, length0, flags, hint) ==
    LET length == align_up(length0)
        found == find_span(h, ROOT, h.root, length, flags, hint)
    IN  IF length = 0 THEN [h |-> h, ret |-> invalid]
        ELSE IF length > _length THEN [h |-> h, ret |-> invalid]
        ELSE IF found[2] = NULL THEN [h |-> h, ret |-> invalid]
        ELSE split_span(h, found[1], found[2], length, flags, hint)

\* a new span [base, base + length) linked between curr and next
insert_span(h, curr, next, base, length) ==
    LET g == add_span(h)
        s == g[2]
    IN  IF s = NULL THEN [h EXCEPT !.fault = TRUE]
        ELSE set_next([g[1] EXCEPT !.pool[s] = [next |-> next, base |-> base,
                                                length |-> length]],
                      curr, s)

\* the scan of free
RECURSIVE free_scan(_, _, _, _, _)
free_scan(h, curr, next, base, length) ==
    IF next = NULL THEN insert_span(h, curr, NULL, base, length)
    ELSE LET n == h.pool[next]
             nn == n.next
         IN  IF add(base, length) < n.base
                THEN insert_span(h, curr, next, base, length)
             ELSE IF add(base, length) = n.base
                THEN [h EXCEPT !.pool[next].base = base,
                               !.pool[next].length = add(@, length)]
             ELSE IF base < add(n.base, n.length)
                THEN h
             ELSE IF base = add(n.base, n.length)
                THEN IF nn # NULL /\ add(base, length) > h.pool[nn].base
                        THEN h
                     ELSE IF nn # NULL /\ add(base, length) = h.pool[nn].base
                        THEN remove_span(
                                [h EXCEPT !.pool[next].length =
                                     add(@, add(length, h.pool[nn].length))],
                                next, nn)
                     ELSE [h EXCEPT !.pool[next].length = add(@, length)]
             ELSE free_scan(h, next, nn, base, length)

\* range_allocator::free
free(h, base0, length0) ==
    LET base == align_down(base0)
        length == align_up(length0)
    IN  IF length = 0 THEN h
        ELSE IF base < _base \/ base >= add(_base, _length) THEN h
        ELSE IF add(base, length) > add(_base, _length) THEN h
        ELSE free_scan(h, ROOT, h.root, base, length)

----------------------------------------------------------------------------
\* The free list as the sequence of (base, length) of the spans linked from the head.
RECURSIVE span_list(_, _)
span_list(h, p) ==
    IF p = NULL THEN <<>>
    ELSE <<[base |-> h.pool[p].base, length |-> h.pool[p].length]>>
            \o span_list(h, h.pool[p].next)

FreeList(h) == span_list(h, h.root)

\* the addresses [base, base + length) of a block, as the caller holds them
Block(base, length) == {add(base, i) : i \in 0 .. length - 1}

----------------------------------------------------------------------------
\* Parameter triples (base, length, granularity) given to create_range_allocator.
CreateArgs ==
    { <<0, 8, 2>>, <<4, 0, 2>>, <<4, 8, 0>>, <<4, 2, 8>>,
      <<4, 8, 2>>, <<4, 9, 2>>, <<4, 3, 2>>, <<8, 8, 2>>, <<4, 6, 2>> }

\* Requested lengths and addresses given to allocate_range and free_range.
Lengths == {0, 1, 2, 4, 8, WordSize - 1}
Addresses == {0, 4, 5, 6, 8, 10, 12, 14, invalid}

NoBlocks == [a \in Word |-> 0]

NoCall == [op |-> "none", length |-> 0, flags |-> 0, addr |-> 0, ret |-> 0]

Init ==
    /\ ra = "null"
    /\ _base = 0
    /\ _length = 0
    /\ _granularity = 0
    /\ _pool = <<>>
    /\ _available_spans = NULL
    /\ _free_mem_root = NULL
    /\ calls = 0
    /\ last = NoCall
    /\ before = <<>>
    /\ allocated = NoBlocks
    /\ valid_frees = TRUE

\* the constructor with a pool of one record for every unit of the range
range_allocator_record_per_unit(base, length, granularity) ==
    LET max_instances == length \div granularity
        p == span_manager_pool(max_instances)
        aligned == (length \div granularity) * granularity
    IN  IF max_instances = 0
        THEN [ra |-> "crashed", base |-> base, length |-> aligned,
              granularity |-> granularity, pool |-> <<>>, avail |-> NULL, root |-> NULL]
        ELSE [ra |-> "instance", base |-> base, length |-> aligned,
              granularity |-> granularity,
              pool |-> [p EXCEPT ![1] = [next |-> NULL, base |-> base, length |-> aligned]],
              avail |-> p[1].next,
              root |-> 1]

\* The constructor of range_allocator<span_manager_pool>.  With max_instances = 0
\* the constructor of the pool writes _pool[0] of an empty vector, in a loop
\* that runs to max_instances - 1 = SIZE_MAX: the process dies.
range_allocator(base, length, granularity) ==
    LET max_instances == (length \div granularity) \div 2
        p == span_manager_pool(max_instances)
        aligned == (length \div granularity) * granularity
    IN  IF max_instances = 0
        THEN [ra |-> "crashed", base |-> base, length |-> aligned,
              granularity |-> granularity, pool |-> <<>>, avail |-> NULL, root |-> NULL]
        ELSE [ra |-> "instance", base |-> base, length |-> aligned,
              granularity |-> granularity,
              pool |-> [p EXCEPT ![1] = [next |-> NULL, base |-> base, length |-> aligned]],
              avail |-> p[1].next,
              root |-> 1]

\* create_range_allocator: the handle and the instance it yields
create_range_allocator(base, length, granularity) ==
    IF base = 0 \/ length = 0 \/ granularity = 0 \/ granularity > length
    THEN [ra |-> "null", base |-> 0, length |-> 0, granularity |-> 0,
          pool |-> <<>>, avail |-> NULL, root |-> NULL]
    ELSE range_allocator(base, length, granularity)

Create(base, length, granularity, traced) ==
    /\ ra = "null"
    /\ IF traced
       THEN last' = [op |-> "create", length |-> length, flags |-> granularity,
                     addr |-> base, ret |-> 0]
       ELSE UNCHANGED last
    /\ LET r == create_range_allocator(base, length, granularity)
       IN  /\ ra' = r.ra
           /\ _base' = r.base
           /\ _length' = r.length
           /\ _granularity' = r.granularity
           /\ _pool' = r.pool
           /\ _available_spans' = r.avail
           /\ _free_mem_root' = r.root
    /\ UNCHANGED <<calls, before, allocated, valid_frees>>

\* allocate_range on a live handle; the call is recorded when traced
allocate_range(length, flags, optional_hint, traced) ==
    /\ ra = "instance"
    /\ calls < (IF traced THEN MaxTracedCalls ELSE MaxCalls)
    /\ calls' = calls + 1
    /\ IF traced
       THEN /\ last' = [op |-> "allocate", length |-> length, flags |-> flags,
                        addr |-> optional_hint,
                        ret |-> allocate(Heap, length, flags, optional_hint).ret]
            /\ before' = FreeList(Heap)
       ELSE UNCHANGED <<last, before>>
    /\ LET r == allocate(Heap, length, flags, optional_hint)
           block == Block(r.ret, align_up(length))
       IN  IF r.h.fault
           THEN /\ ra' = "crashed"
                /\ UNCHANGED <<_pool, _available_spans, _free_mem_root, allocated>>
           ELSE /\ ra' = ra
                /\ _pool' = r.h.pool
                /\ _available_spans' = r.h.avail
                /\ _free_mem_root' = r.h.root
                /\ allocated' =
                      IF r.ret = invalid \/ ~valid_frees THEN allocated
                      ELSE [a \in Word |->
                              IF a \in block THEN allocated[a] + 1 ELSE allocated[a]]
    /\ UNCHANGED <<_base, _length, _granularity, valid_frees>>

\* free_range on a live handle; the call is recorded when traced
free_range(base, length, traced) ==
    /\ ra = "instance"
    /\ calls < (IF traced THEN MaxTracedCalls ELSE MaxCalls)
    /\ calls' = calls + 1
    /\ IF traced
       THEN /\ last' = [op |-> "free", length |-> length, flags |-> 0,
                        addr |-> base, ret |-> 0]
            /\ before' = FreeList(Heap)
       ELSE UNCHANGED <<last, before>>
    /\ LET h == free(Heap, base, length)
           released == Block(base, align_up(length))
       IN  /\ IF h.fault
              THEN /\ ra' = "crashed"
                   /\ UNCHANGED <<_pool, _available_spans, _free_mem_root>>
              ELSE /\ ra' = ra
                   /\ _pool' = h.pool
                   /\ _available_spans' = h.avail
                   /\ _free_mem_root' = h.root
           /\ IF ~valid_frees
              THEN UNCHANGED <<valid_frees, allocated>>
              ELSE IF \A a \in released : allocated[a] >= 1
              THEN /\ valid_frees' = TRUE
                   /\ allocated' = [a \in Word |->
                         IF a \in released THEN allocated[a] - 1 ELSE allocated[a]]
              ELSE /\ valid_frees' = FALSE
                   /\ allocated' = NoBlocks
    /\ UNCHANGED <<_base, _length, _granularity>>

\* range_allocator::~range_allocator: every span still linked in the list is
\* unlinked from the head and released
RECURSIVE destructor(_)
destructor(h) ==
    IF h.root = NULL THEN h
    ELSE LET s == h.root
         IN  destructor(release([h EXCEPT !.root = h.pool[s].next], s))

\* destroy_range_allocator on a live handle; the store is shown as the
\* destructor's body leaves it.  On the null handle the call returns at once.
destroy_range_allocator(traced) ==
    /\ ra = "instance"
    /\ ra' = "destroyed"
    /\ IF traced
       THEN /\ last' = [op |-> "destroy", length |-> 0, flags |-> 0, addr |-> 0, ret |-> 0]
            /\ before' = FreeList(Heap)
       ELSE UNCHANGED <<last, before>>
    /\ LET h == destructor(Heap)
       IN  /\ _pool' = h.pool
           /\ _available_spans' = h.avail
           /\ _free_mem_root' = h.root
    /\ UNCHANGED <<_base, _length, _granularity, calls, allocated, valid_frees>>

Next ==
    \/ \E args \in CreateArgs : Create(args[1], args[2], args[3], FALSE)
    \/ \E length \in Lengths, flags \in allocation_flags, hint \in Addresses :
          allocate_range(length, flags, hint, FALSE)
    \/ \E base \in Addresses, length \in Lengths : free_range(base, length, FALSE)
    \/ destroy_range_allocator(FALSE)

Spec == Init /\ [][Next]_vars

\* The same calls, each recorded with its arguments, its result and the free
\* list it found.
NextTraced ==
    \/ \E args \in CreateArgs : Create(args[1], args[2], args[3], TRUE)
    \/ \E length \in Lengths, flags \in allocation_flags, hint \in Addresses :
          allocate_range(length, flags, hint, TRUE)
    \/ \E base \in Addresses, length \in Lengths : free_range(base, length, TRUE)
    \/ destroy_range_allocator(TRUE)

SpecTraced == Init /\ [][NextTraced]_vars

----------------------------------------------------------------------------
\* Notions the properties are stated with.  Addresses and lengths are read as
\* natural numbers here: a sum that exceeds the word is not reduced.

Live == ra = "instance"

\* the length rounded up to the granularity
RoundUp(length) == ((length + _granularity - 1) \div _granularity) * _granularity

\* the addresses [base, base + length)
Range(base, length) == base .. base + length - 1

\* the set of addresses the spans of a list cover
SpanSet(l) == UNION {Range(l[i].base, l[i].length) : i \in 1 .. Len(l)}

FreeSet(h) == SpanSet(FreeList(h))

RECURSIVE SumLengths(_)
SumLengths(l) == IF l = <<>> THEN 0 ELSE Head(l).length + SumLengths(Tail(l))

RECURSIVE SumBlocks(_)
SumBlocks(a) == IF a < 0 THEN 0 ELSE allocated[a] + SumBlocks(a - 1)

\* ascending, not touching, inside the managed range
WellFormed(l) ==
    \A i \in 1 .. Len(l) :
        /\ _base <= l[i].base
        /\ l[i].base + l[i].length <= _base + _length
        /\ i < Len(l) =>
              /\ l[i].base < l[i + 1].base
              /\ l[i].base + l[i].length < l[i + 1].base

\* the last call was allocate_range with these flags, and it returned an address
Returned(flags) ==
    Live /\ last.op = "allocate" /\ last.flags = flags /\ last.ret # invalid

ReturnedAny == \E flags \in allocation_flags : Returned(flags)

\* the rounded length of the last call
Rounded == RoundUp(last.length)

\* the spans of l that satisfy P, and the one of them with the lowest base
Matching(l, P(_)) == {i \in 1 .. Len(l) : P(l[i])}
Lowest(l, P(_)) ==
    CHOOSE i \in Matching(l, P) : \A j \in Matching(l, P) : l[i].base <= l[j].base

----------------------------------------------------------------------------
\* C1: after any sequence of allocate and free calls on a created allocator the
\* free list is strictly ascending by base, consecutive spans neither overlap
\* nor touch, and every span lies inside [_base, _base + _length).
C1_FreeListWellFormed == Live => WellFormed(FreeList(Heap))

\* C2: a successful allocate returns a block that was inside one single free
\* span and inside the managed range, removes exactly that block from the free
\* set and nothing else, and so no address is ever covered by two live blocks.
C2_AllocateTakesOneFreeBlock ==
    /\ \A a \in Word : allocated[a] <= 1
    /\ ReturnedAny =>
          /\ \E i \in 1 .. Len(before) :
                /\ before[i].base <= last.ret
                /\ last.ret + Rounded <= before[i].base + before[i].length
          /\ _base <= last.ret /\ last.ret + Rounded <= _base + _length
          /\ FreeSet(Heap) = SpanSet(before) \ Range(last.ret, Rounded)

\* C3: while every free released allocated addresses only, the lengths of the
\* free spans and the rounded lengths of the live blocks add up to _length.
C3_Conservation ==
    (Live /\ valid_frees) =>
        SumLengths(FreeList(Heap)) + SumBlocks(WordSize - 1) = _length

\* C4: free(r, length) right after a successful allocate(length, flags, hint) = r
\* restores the free list to the sequence of spans it was before the allocate.
C4_RoundTrip ==
    ReturnedAny =>
        LET h == free(Heap, last.ret, last.length)
        IN  ~h.fault /\ FreeList(h) = before

\* C5: a successful allocate(length, EXACT, hint) returns hint, and only when
\* [hint, hint + rounded length) was free; the block it returns overlaps no
\* block that is still allocated.
C5_ExactAtHint ==
    Returned(ALLOCATE_EXACT) =>
        /\ last.ret = last.addr
        /\ Range(last.addr, Rounded) \subseteq SpanSet(before)
        /\ valid_frees => \A a \in Block(last.addr, Rounded) : allocated[a] = 1

\* the ABOVE and BELOW predicates on a span, for a rounded length n
AbovePredicate(s, n, hint) ==
    IF s.base >= hint THEN s.length >= n
    ELSE IF s.base + s.length >= hint THEN s.base + s.length >= hint + n
    ELSE FALSE

BelowPredicate(s, n, hint) == s.length >= n /\ s.base + n <= hint

\* C6: a successful allocate(length, ABOVE, hint) selects the first span S in
\* ascending order that satisfies the ABOVE predicate, returns
\* r = S.base + S.length - rounded length, and r >= hint.
C6_AboveAtTopOfFirstSpan ==
    Returned(ALLOCATE_ABOVE) =>
        LET P(s) == AbovePredicate(s, Rounded, last.addr)
        IN  /\ Matching(before, P) # {}
            /\ LET S == before[Lowest(before, P)]
               IN  last.ret = S.base + S.length - Rounded
            /\ last.ret >= last.addr

\* C7: a successful allocate(length, BELOW, hint) returns the base r of the first
\* span S in ascending order with S.length >= rounded length and
\* S.base + rounded length <= hint, and r + rounded length <= hint.
C7_BelowAtBaseOfFirstSpan ==
    Returned(ALLOCATE_BELOW) =>
        LET P(s) == BelowPredicate(s, Rounded, last.addr)
        IN  /\ Matching(before, P) # {}
            /\ last.ret = before[Lowest(before, P)].base
            /\ last.ret + Rounded <= last.addr

\* a run of n free addresses at a position the policy of the last call admits
FreeRun(n) ==
    \E a \in Word :
        /\ Range(a, n) \subseteq SpanSet(before)
        /\ CASE last.flags = ALLOCATE_ANY   -> TRUE
             [] last.flags = ALLOCATE_EXACT -> a = last.addr
             [] last.flags = ALLOCATE_ABOVE -> a >= last.addr
             [] last.flags = ALLOCATE_BELOW -> a + n <= last.addr

\* C8: allocate fails (it returns the invalid address, or it does not return) if
\* and only if the rounded length is 0, or exceeds _length, or no run of free
\* addresses of the rounded length meets the position constraint of the policy.
C8_AllocateComplete ==
    last.op = "allocate" =>
        ((ra = "crashed" \/ last.ret = invalid)
            <=> (Rounded = 0 \/ Rounded > _length \/ ~FreeRun(Rounded)))

\* the addresses k consecutive one-granule ANY allocations return
RECURSIVE AnyRun(_, _)
AnyRun(h, k) ==
    IF k = 0 THEN <<>>
    ELSE LET r == allocate(h, _granularity, ALLOCATE_ANY, 0)
         IN  <<IF r.h.fault THEN invalid ELSE r.ret>> \o AnyRun(r.h, k - 1)

\* C9: a successful allocate(length, ANY, _) returns the base of the first span
\* in ascending order whose length is >= the rounded length; and on a fresh
\* allocator of N units, N one-granule ANY allocations return
\* _base + i * _granularity for i = 0 .. N - 1 and the next one fails.
C9_AnyFirstFit ==
    /\ Returned(ALLOCATE_ANY) =>
          LET P(s) == s.length >= Rounded
          IN  /\ Matching(before, P) # {}
              /\ last.ret = before[Lowest(before, P)].base
    /\ (Live /\ calls = 0) =>
          LET N == _length \div _granularity
          IN  AnyRun(Heap, N + 1) =
                [i \in 1 .. N + 1 |->
                    IF i <= N THEN _base + (i - 1) * _granularity ELSE invalid]

\* C10: create_range_allocator(base, length, granularity) yields the null handle
\* if and only if base = 0 or length = 0 or granularity = 0 or
\* granularity > length, and a usable instance for every other triple.
C10_CreateNullIffInvalidArgs ==
    last.op = "create" /\ calls = 0 =>
        LET bad == last.addr = 0 \/ last.length = 0 \/ last.flags = 0
                      \/ last.flags > last.length
        IN  /\ ra = "null" <=> bad
            /\ ~bad => Live

\* C11: for every accepted configuration (base # 0, 0 < granularity <= length),
\* granularity <= length < 2 * granularity included, the free list right after
\* construction is the one span [base, base + effective length), effective
\* length = (length \div granularity) * granularity, and
\* allocate(effective length, ANY, 0) then returns base.
C11_InitialState ==
    (/\ last.op = "create" /\ calls = 0
     /\ last.addr # 0 /\ 0 < last.flags /\ last.flags <= last.length) =>
        LET effective_length == (last.length \div last.flags) * last.flags
        IN  /\ Live
            /\ FreeList(Heap) = <<[base |-> last.addr, length |-> effective_length]>>
            /\ LET r == allocate(Heap, effective_length, ALLOCATE_ANY, 0)
               IN  ~r.h.fault /\ r.ret = last.addr

\* the range free(base, length) works on, as natural numbers: the base rounded
\* down and the length rounded up to the granularity
RoundDown(base) == (base \div _granularity) * _granularity
FreedRange(base, length) == Range(RoundDown(base), RoundUp(length))

\* free(base, length) on the free list l is invalid: its rounded length is 0, or
\* its range is not inside the managed range, or its range meets a free span
InvalidFree(l, base, length) ==
    \/ RoundUp(length) = 0
    \/ ~(FreedRange(base, length) \subseteq Range(_base, _length))
    \/ FreedRange(base, length) \cap SpanSet(l) # {}

\* C12: an invalid free changes neither the free list nor the record store:
\* free(base, length) leaves the control structures as they are whenever its
\* rounded length is 0, or its rounded range is not inside
\* [_base, _base + _length), or its rounded range meets a free span.
C12_InvalidFreeNoOp ==
    Live =>
        \A base \in Addresses, length \in Lengths :
            InvalidFree(FreeList(Heap), base, length) =>
                free(Heap, base, length) = Heap

\* C13: when a free of a granularity-aligned range has released the last
\* allocated addresses, every free so far having released allocated addresses
\* only, the free list is again the one span [_base, _base + _length) and
\* allocate(_length, ANY, 0) returns _base.
C13_FullCoalescing ==
    (/\ Live /\ last.op = "free"
     /\ last.addr % _granularity = 0 /\ Rounded > 0
     /\ valid_frees /\ allocated = NoBlocks) =>
        /\ FreeList(Heap) = <<[base |-> _base, length |-> _length]>>
        /\ LET r == allocate(Heap, _length, ALLOCATE_ANY, 0)
           IN  ~r.h.fault /\ r.ret = _base

\* The scenario of main.cpp lines 120-130, scaled to the word: the range
\* [4, 4 + 8) of four units of granularity 2 stands for [0x1000, 0x1000 + 4096)
\* with granularity 64, and hint = _base + _length / 2.
ScenarioStart ==
    Live /\ calls = 0 /\ _base = 4 /\ _length = 8 /\ _granularity = 2

ScenarioHint == _base + _length \div 2

\* allocate(granularity, ABOVE, hint), then free of the block it returned
ScenarioAbove == allocate(Heap, _granularity, ALLOCATE_ABOVE, ScenarioHint)
ScenarioFreed == free(ScenarioAbove.h, ScenarioAbove.ret, _granularity)

\* then allocate(length / 2, ABOVE, hint - granularity)
ScenarioRetry ==
    allocate(ScenarioFreed, _length \div 2, ALLOCATE_ABOVE, ScenarioHint - _granularity)

\* the same with allocate(length / 4, EXACT, hint) made after the free, as
\* main.cpp line 127 does
ScenarioExact == allocate(ScenarioFreed, _length \div 4, ALLOCATE_EXACT, ScenarioHint)
ScenarioRetryAfterExact ==
    allocate(ScenarioExact.h, _length \div 2, ALLOCATE_ABOVE, ScenarioHint - _granularity)

\* C14 as stated: after allocate(granularity, ABOVE, hint) and the free of its
\* block, allocate(length / 2, ABOVE, hint - granularity) fails.
C14_AboveFailsAfterFree ==
    ScenarioStart => ScenarioRetry.ret = invalid

\* C14, amended: allocate(granularity, ABOVE, hint) returns the top unit, the
\* free of it restores the list, and allocate(length / 2, ABOVE, hint - granularity)
\* then succeeds and returns hint, the upper half being free; it fails, and
\* changes nothing, when allocate(length / 4, EXACT, hint) was made after the free.
C14_AboveFailsOnlyAfterExact ==
    ScenarioStart =>
        /\ ScenarioAbove.ret = _base + _length - _granularity
        /\ ScenarioFreed = Heap
        /\ ~ScenarioRetry.h.fault
        /\ ScenarioRetry.ret = ScenarioHint
        /\ FreeList(ScenarioRetry.h) = <<[base |-> _base, length |-> _length \div 2]>>
        /\ ScenarioExact.ret = ScenarioHint
        /\ ScenarioRetryAfterExact.ret = invalid
        /\ ScenarioRetryAfterExact.h = ScenarioExact.h

\* C14, reached: the fresh allocator of the scenario, on which the ABOVE
\* allocation of one unit succeeds and its block is freed again
C14_ScenarioRuns ==
    /\ ScenarioStart
    /\ ScenarioAbove.ret # invalid
    /\ FreeList(ScenarioAbove.h) # FreeList(Heap)
    /\ FreeList(ScenarioFreed) = FreeList(Heap)

\* C15: the record store never runs out: for every accepted configuration and
\* after any sequence of allocate and free calls, the add_span of the
\* constructor, of an EXACT split in the middle of a span and of free obtains a
\* record, so no call writes through a null span pointer.
C15_PoolNeverExhausted == ra # "crashed"

\* the number of units of the managed range
Units == _length \div _granularity

\* C16: in every reachable state of a live allocator the free list holds at
\* most ceil(_length / _granularity / 2) spans.
C16_SpanCountBounded ==
    Live => Len(FreeList(Heap)) <= (Units + 1) \div 2

\* C16, reached: after calls that split the free range, the free list holds as
\* many spans as the bound allows, more than the one it starts with
C16_SpanCountAtBound ==
    /\ Live /\ calls > 0
    /\ Len(FreeList(Heap)) = (Units + 1) \div 2
    /\ Len(FreeList(Heap)) >= 2

\* C17: in every reachable state every span of the free list has a base that is
\* a multiple of the granularity and a length that is a positive multiple of it.
C17_SpansAligned ==
    Live =>
        \A i \in 1 .. Len(FreeList(Heap)) :
            LET s == FreeList(Heap)[i]
            IN  /\ s.base % _granularity = 0
                /\ s.length % _granularity = 0
                /\ s.length > 0

\* C18: an allocate that returns the invalid address changes nothing: the free
\* list and the record store are after the call what they were before it.
C18_FailedAllocateNoOp ==
    Live =>
        \A length \in Lengths, flags \in allocation_flags, hint \in Addresses :
            LET r == allocate(Heap, length, flags, hint)
            IN  (~r.h.fault /\ r.ret = invalid) => r.h = Heap

\* the last call was free_range of an aligned range inside the managed range
\* that no span of the list before the call meets
ValidFree ==
    /\ last.op = "free"
    /\ last.addr % _granularity = 0
    /\ last.length % _granularity = 0
    /\ last.length > 0
    /\ Range(last.addr, last.length) \subseteq Range(_base, _length)
    /\ Range(last.addr, last.length) \cap SpanSet(before) = {}

\* C19: after a valid free(b, l) the set of free addresses is the old set united
\* with [b, b + l), and the list is ascending with no two spans touching when
\* the call returns.
C19_ValidFreeFreesExactly ==
    ValidFree =>
        /\ Live
        /\ FreeSet(Heap) = SpanSet(before) \cup Range(last.addr, last.length)
        /\ WellFormed(FreeList(Heap))

\* the number of spans of the list before the last call that the freed range
\* touches: the span that ends at its base, the span that starts at its end
Touched ==
    Cardinality({i \in 1 .. Len(before) :
        \/ before[i].base + before[i].length = last.addr
        \/ last.addr + last.length = before[i].base})

\* C20: a valid free changes the number of spans by +1 when the freed range
\* touches no free span, by 0 when it touches one, by -1 when it fills the gap
\* between two spans; the lower span then has the sum of the three lengths and
\* the record of the upper one is back in the store.
C20_MergeArity ==
    ValidFree =>
        /\ Live
        /\ Len(FreeList(Heap)) = Len(before) + 1 - Touched
        /\ Touched = 2 =>
              \E i \in 1 .. Len(before) - 1 :
                  /\ before[i].base + before[i].length = last.addr
                  /\ FreeList(Heap)[i] =
                        [base   |-> before[i].base,
                         length |-> before[i].length + last.length + before[i + 1].length]

\* the rounded range of free(base, length) is not empty and reaches outside
\* [_base, _base + _length)
NotContained(base, length) ==
    /\ RoundUp(length) > 0
    /\ ~(FreedRange(base, length) \subseteq Range(_base, _length))

\* C21: for every word-sized base and length, when the rounded range is not
\* fully contained in [_base, _base + _length), also when base + length wraps
\* around, free leaves the free list unchanged and adds no address outside the
\* managed range to it.
C21_FreeContainmentSound ==
    Live =>
        \A base \in Addresses, length \in Lengths :
            NotContained(base, length) =>
                LET h == free(Heap, base, length)
                IN  /\ ~h.fault
                    /\ FreeList(h) = FreeList(Heap)
                    /\ FreeSet(h) \ FreeSet(Heap) \subseteq Range(_base, _length)

\* C22: for every word-sized hint, allocate(length, EXACT, hint) succeeds only
\* when _base <= hint and hint + rounded length <= _base + _length as natural
\* numbers; a hint for which hint + length wraps is answered with the invalid
\* address and splits no span.
C22_ExactSoundUnderWordArithmetic ==
    Live =>
        \A length \in Lengths, hint \in Addresses :
            LET r == allocate(Heap, length, ALLOCATE_EXACT, hint)
            IN  /\ (~r.h.fault /\ r.ret # invalid) =>
                      /\ _base <= hint
                      /\ hint + RoundUp(length) <= _base + _length
                /\ hint + RoundUp(length) >= WordSize =>
                      /\ ~r.h.fault
                      /\ r.ret = invalid
                      /\ FreeList(r.h) = FreeList(Heap)

\* the records linked from p through next; the walk ends after n + 1 records,
\* so a chain that runs into itself shows a record twice
RECURSIVE Chain(_, _, _)
Chain(h, p, n) ==
    IF p = NULL \/ n < 0 THEN <<>>
    ELSE <<p>> \o Chain(h, h.pool[p].next, n - 1)

ListRecords == Chain(Heap, _free_mem_root, Len(_pool))
AvailableRecords == Chain(Heap, _available_spans, Len(_pool))

NoRepeat(s) == \A i, j \in 1 .. Len(s) : i # j => s[i] # s[j]
Elems(s) == {s[i] : i \in 1 .. Len(s)}

\* C23: in every state of a created or destroyed allocator each record of the
\* pool is linked either in the free list or in the chain of available records,
\* never in both and never in neither, so the number of list spans plus the
\* number of available records is the capacity of the pool; after destruction
\* the list is empty and every record is available.
C23_RecordAccounting ==
    ra \in {"instance", "destroyed"} =>
        /\ NoRepeat(ListRecords)
        /\ NoRepeat(AvailableRecords)
        /\ Elems(ListRecords) \cap Elems(AvailableRecords) = {}
        /\ Elems(ListRecords) \cup Elems(AvailableRecords) = DOMAIN _pool
        /\ Len(ListRecords) + Len(AvailableRecords) = Len(_pool)
        /\ ra = "destroyed" =>
              /\ ListRecords = <<>>
              /\ Elems(AvailableRecords) = DOMAIN _pool

\* C23 (reached): an allocator is destroyed while its list holds two spans or
\* more, and every record of the pool is available afterwards.
C23_DestroyedWithSpans ==
    /\ ra = "destroyed"
    /\ last.op = "destroy"
    /\ Len(before) >= 2
    /\ calls >= 1
    /\ Len(AvailableRecords) = Len(_pool)

====
